---- MODULE Spec2Model ----
(***************************************************************************)
(* Model of photo_processor.py: batch creation of ".min" thumbnails.       *)
(*                                                                         *)
(* A path is the sequence of the dot-separated components of a file name   *)
(* of the processed directory: "a.min.jpg" is <<"a", "min", "jpg">>.  The   *)
(* directory is the function disk from the names present to their files.   *)
(***************************************************************************)
EXTENDS Integers, Sequences, FiniteSets, TLC

VARIABLES
    disk,       \* name present in the directory -> [kind, mtime]
    dirExists,  \* the directory given on the command line exists
    clock,      \* the file system's time stamp for the next write
    history,    \* how the earlier invocations of the program ended
    phase,      \* position of main()
    args,       \* parsed command line (argparse namespace)
    config,     \* the config dict handed to every worker
    images,     \* result of find_images(): sorted sequence of paths
    item,       \* one work item per image: position and outcome of process_photo
    summary,    \* the printed summary, NoSummary until printed
    exitCode,   \* process exit status, NoExit while running
    szin,       \* thumbnail-size computation: <<width, height, min_width>>
    szout       \* thumbnail-size computation: result

vars == <<disk, dirExists, clock, history, phase, args, config, images, item,
          summary, exitCode, szin, szout>>

batchVars == <<disk, dirExists, clock, history, phase, args, config, images,
               item, summary, exitCode>>

sizeVars == <<szin, szout>>

-----------------------------------------------------------------------------
(* Bounds *)

MaxClock == 2        \* time stamps run over 0..MaxClock
MaxRuns == 2         \* invocations of the program in a row
MaxDim == 120        \* image widths and heights run over 1..MaxDim
MaxTarget == 101     \* --min-width runs over MinWidth..MaxTarget in the size check

(* Program constants *)

MinWidth == 100      \* smallest accepted --min-width
MinQuality == 1
MaxQuality == 100
DefaultQuality == 85

(* Every source file of the model carries this modification time; the      *)
(* outputs' times lie below, at and above it.                              *)
SrcMtime == MaxClock - 1

NoArgs == [none |-> TRUE]
NoConfig == [none |-> TRUE]
NoSummary == [none |-> TRUE]
NoExit == 0 - 1
NoSize == <<>>

-----------------------------------------------------------------------------
(* Paths (pathlib) *)

Suffix(p) == IF Len(p) >= 2 THEN p[Len(p)] ELSE ""

Stem(p) == IF Len(p) >= 2 THEN SubSeq(p, 1, Len(p) - 1) ELSE p

\* str.endswith('.min') on the stem: a dot, then "min", at the end
EndsWithMin(stem) == Len(stem) >= 2 /\ stem[Len(stem)] = "min"

min_path_fixed_suffix(filepath) == Stem(filepath) \o <<"min">> \o <<"jpg">>

\* filepath.with_name(filepath.stem + '.min' + filepath.suffix)
min_path(filepath) == Stem(filepath) \o <<"min">> \o <<Suffix(filepath)>>

extensions == {"jpg", "jpeg", "JPG", "JPEG"}

\* Code points order the components: upper case before lower case.
SegRank(s) ==
    CASE s = "JPG" -> 1
      [] s = "Jpg" -> 2
      [] s = "a" -> 3
      [] s = "jpg" -> 4
      [] s = "min" -> 5
      [] s = "png" -> 6
      [] OTHER -> 7

RECURSIVE PathLess(_, _)
PathLess(p, q) ==
    IF p = <<>> THEN q # <<>>
    ELSE IF q = <<>> THEN FALSE
    ELSE IF SegRank(Head(p)) # SegRank(Head(q))
         THEN SegRank(Head(p)) < SegRank(Head(q))
         ELSE PathLess(Tail(p), Tail(q))

RECURSIVE sorted(_)
sorted(S) ==
    IF S = {} THEN <<>>
    ELSE LET least == CHOOSE p \in S : \A q \in S \ {p} : PathLess(p, q)
         IN  <<least>> \o sorted(S \ {least})

eligible_without_marker_test(d) == {f \in DOMAIN d : Suffix(f) \in extensions}

\* the filter of find_images(): a listed extension and a stem not ending in ".min"
eligible(d) == {f \in DOMAIN d : Suffix(f) \in extensions /\ ~EndsWithMin(Stem(f))}

\* find_images(): the filter and the sort (the caller handles a missing directory)
find_images(d) == sorted(eligible(d))

Range(s) == {s[i] : i \in 1..Len(s)}

-----------------------------------------------------------------------------
(* The directory *)

\* Path.exists()
Exists(d, p) == p \in DOMAIN d

\* Path.stat() succeeds
Statable(d, p) == p \in DOMAIN d /\ d[p].kind # "dangling"

WriteFile(d, p, f) == [n \in DOMAIN d \cup {p} |-> IF n = p THEN f ELSE d[n]]

RemoveFile(d, p) == [n \in DOMAIN d \ {p} |-> d[n]]

\* Names a source may have, and what may lie in the directory at the start
Candidates == {<<"a", "jpg">>, <<"a", "JPG">>}

\* Files that are never sources: wrong extension, extension in mixed case
Bystanders == {<<"a", "png">>, <<"a", "Jpg">>}

\* A source decodes and encodes ("jpeg"), makes some stage of the pipeline
\* fail ("bad"), or is a symbolic link to nothing ("dangling"): rglob lists it,
\* stat() and open() fail on it
SourceKinds == {"jpeg", "bad", "dangling"}

Absent == "absent"

NoMtime == 0 - 1

\* The name under which an earlier run left the thumbnail of c
ThumbName(c) == Stem(c) \o <<"min", Suffix(c)>>

OutputOf(n) == CHOOSE c \in Candidates : ThumbName(c) = n

MakeDisk(src, out) ==
    [n \in {c \in Candidates : src[c] # Absent}
           \cup {ThumbName(c) : c \in {x \in Candidates : out[x] # NoMtime}}
           \cup Bystanders |->
        IF n \in Bystanders THEN [kind |-> "other", mtime |-> SrcMtime]
        ELSE IF n \in Candidates THEN [kind |-> src[n], mtime |-> SrcMtime]
        ELSE [kind |-> "old", mtime |-> out[OutputOf(n)]]]

\* Every directory of sources, earlier outputs (older than, as old as, or newer
\* than the sources; with or without their source) and bystanders
InitialDisks ==
    {MakeDisk(src, out) : src \in [Candidates -> SourceKinds \cup {Absent}],
                          out \in [Candidates -> {NoMtime} \cup 0..MaxClock]}

-----------------------------------------------------------------------------
(* main(): command line, validation, discovery *)

QualityInputs == {MinQuality - 1, DefaultQuality, MaxQuality + 1}

WidthInputs == {MinWidth - 1, MinWidth}

WorkerInputs == {0, 1, 2}

TextInputs == {"", "(c)"}

ArgSets ==
    [quality : QualityInputs, min_width : WidthInputs, workers : WorkerInputs,
     force : BOOLEAN, watermark : BOOLEAN, watermark_text : TextInputs]

NoItems == <<>>

Init ==
    /\ dirExists \in BOOLEAN
    /\ disk \in IF dirExists THEN InitialDisks ELSE {<<>>}
    /\ clock = SrcMtime
    /\ history = <<>>
    /\ phase = "parse"
    /\ args = NoArgs
    /\ config = NoConfig
    /\ images = <<>>
    /\ item = NoItems
    /\ summary = NoSummary
    /\ exitCode = NoExit
    /\ szin = NoSize
    /\ szout = NoSize

Exit(code) ==
    /\ phase' = "exited"
    /\ exitCode' = code

\* parser.parse_args()
ParseArgs ==
    /\ phase = "parse"
    /\ \E a \in ArgSets : args' = a
    /\ phase' = "validate"
    /\ UNCHANGED <<disk, dirExists, clock, history, config, images, item,
                   summary, exitCode, sizeVars>>

width_accepts_below(a) == a.min_width < MinWidth - 1

QualityRejected(a) == a.quality < MinQuality \/ a.quality > MaxQuality

WidthRejected(a) == a.min_width < MinWidth

\* the two validation tests of main()
Validate ==
    /\ phase = "validate"
    /\ IF QualityRejected(args) \/ WidthRejected(args)
       THEN Exit(1)
       ELSE phase' = "discover" /\ UNCHANGED exitCode
    /\ UNCHANGED <<disk, dirExists, clock, history, args, config, images, item,
                   summary, sizeVars>>

\* find_images() and the test for an empty result
Discover ==
    /\ phase = "discover"
    /\ IF ~dirExists
       THEN Exit(1) /\ UNCHANGED images
       ELSE /\ images' = find_images(disk)
            /\ IF images' = <<>>
               THEN Exit(0)
               ELSE phase' = "dispatch" /\ UNCHANGED exitCode
    /\ UNCHANGED <<disk, dirExists, clock, history, args, config, item, summary,
                   sizeVars>>

NewItem(f) ==
    [pc |-> "queued", file |-> f, status |-> "none", error |-> "",
     created |-> FALSE, fault |-> "none"]

\* the watermark warning, the config dict, the pool and its tasks
Dispatch ==
    /\ phase = "dispatch"
    /\ config' = [min_width |-> args.min_width,
                  quality |-> args.quality,
                  force |-> args.force,
                  watermark |-> args.watermark /\ args.watermark_text # "",
                  watermark_text |-> args.watermark_text]
    /\ IF args.workers <= 0
       THEN \* ProcessPoolExecutor rejects the pool size: ValueError, traceback
            Exit(1) /\ UNCHANGED item
       ELSE /\ item' = [i \in 1..Len(images) |-> NewItem(images[i])]
            /\ phase' = "running"
            /\ UNCHANGED exitCode
    /\ UNCHANGED <<disk, dirExists, clock, history, args, images, summary,
                   sizeVars>>

-----------------------------------------------------------------------------
(* process_photo(): one work item in a pool worker *)

Active(it) == it.pc \in {"stat", "transform", "save", "writing"}

Finished(it) == it.pc \in {"done", "raised", "cancelled"}

SetItem(i, it) == item' = [item EXCEPT ![i] = it]

Return(it, st, msg) == [it EXCEPT !.pc = "done", !.status = st, !.error = msg]

Raise(it, msg) == [it EXCEPT !.pc = "raised", !.error = msg]

skip_test_ignoring_force(cfg, d, m) == Exists(d, m)

\* the outer test of the skip check: not config['force'] and min_path.exists()
SkipTest(cfg, d, m) == ~cfg.force /\ Exists(d, m)

newer_or_equal(outM, srcM) == outM >= srcM

older(outM, srcM) == outM < srcM

\* the inner test of the skip check: the output is strictly newer
Newer(outM, srcM) == outM > srcM

\* A worker takes the next task of the queue and runs lines 23-28
Start(i) ==
    /\ phase \in {"running", "aborting"}
    /\ item[i].pc = "queued"
    /\ \A j \in 1..(i - 1) : item[j].pc # "queued"
    /\ Cardinality({j \in DOMAIN item : Active(item[j])}) < args.workers
    /\ SetItem(i, [item[i] EXCEPT !.pc =
            IF SkipTest(config, disk, min_path(item[i].file))
            THEN "stat" ELSE "transform"])
    /\ UNCHANGED <<disk, dirExists, clock, history, phase, args, config,
                   images, summary, exitCode, sizeVars>>

\* the two stat() calls and the comparison of line 29, outside the try block
StatCheck(i) ==
    /\ phase \in {"running", "aborting"}
    /\ item[i].pc = "stat"
    /\ LET f == item[i].file
           m == min_path(f)
       IN  IF ~Statable(disk, m) \/ ~Statable(disk, f)
           THEN SetItem(i, Raise(item[i], "FileNotFoundError"))
           ELSE IF Newer(disk[m].mtime, disk[f].mtime)
           THEN SetItem(i, Return(item[i], "skipped", ""))
           ELSE SetItem(i, [item[i] EXCEPT !.pc = "transform"])
    /\ UNCHANGED <<disk, dirExists, clock, history, phase, args, config,
                   images, summary, exitCode, sizeVars>>

\* Stages of the pipeline at which a bad source makes the library raise
FailStages(cfg) ==
    {"decode", "resize", "encode"} \cup
        (IF cfg.watermark /\ cfg.watermark_text # "" THEN {"watermark"} ELSE {})

propagate_failure(it, msg) == Raise(it, msg)

\* except Exception as e: return {'status': 'error', ...}
Caught(it, msg) == Return(it, "error", msg)

\* Image.open, convert, add_watermark, the new size, copy and thumbnail
Transform(i) ==
    /\ phase \in {"running", "aborting"}
    /\ item[i].pc = "transform"
    /\ LET f == item[i].file
       IN  IF ~Statable(disk, f)
           THEN SetItem(i, Caught([item[i] EXCEPT !.fault = "decode"], "decode"))
           ELSE IF disk[f].kind = "jpeg"
           THEN SetItem(i, [item[i] EXCEPT !.pc = "save"])
           ELSE \E st \in FailStages(config) :
                    IF st = "encode"
                    THEN SetItem(i, [item[i] EXCEPT !.pc = "save", !.fault = st])
                    ELSE SetItem(i, Caught([item[i] EXCEPT !.fault = st], st))
    /\ UNCHANGED <<disk, dirExists, clock, history, phase, args, config,
                   images, summary, exitCode, sizeVars>>

open_temporary_file(d, m, t) == d

\* open(filename, "w+b") inside thumb.save(): the output itself is created or
\* truncated, and stamped
OpenForWriting(d, m, t) == WriteFile(d, m, [kind |-> "partial", mtime |-> t])

\* thumb.save(): the output is opened for writing
SaveBegin(i) ==
    /\ phase \in {"running", "aborting"}
    /\ item[i].pc = "save"
    /\ LET m == min_path(item[i].file)
       IN  \E t \in clock..MaxClock :
             /\ clock' = t
             /\ disk' = OpenForWriting(disk, m, t)
             /\ SetItem(i, [item[i] EXCEPT !.pc = "writing",
                                           !.created = ~Exists(disk, m)])
    /\ UNCHANGED <<dirExists, history, phase, args, config, images, summary,
                   exitCode, sizeVars>>

\* thumb.save(): the encoder writes the image and the file is closed; when it
\* raises, the library removes the file only if this call created it
SaveEnd(i) ==
    /\ phase \in {"running", "aborting"}
    /\ item[i].pc = "writing"
    /\ LET m == min_path(item[i].file)
       IN  IF item[i].fault = "encode"
           THEN /\ disk' = IF item[i].created THEN RemoveFile(disk, m) ELSE disk
                /\ SetItem(i, Caught(item[i], "encode"))
                /\ UNCHANGED clock
           ELSE \E t \in clock..MaxClock :
                  /\ clock' = t
                  /\ disk' = WriteFile(disk, m, [kind |-> "thumb", mtime |-> t])
                  /\ SetItem(i, Return(item[i], "processed", ""))
    /\ UNCHANGED <<dirExists, history, phase, args, config, images, summary,
                   exitCode, sizeVars>>

-----------------------------------------------------------------------------
(* main(): collecting the results, the summary, the end of the process *)

WithStatus(st) == {i \in DOMAIN item : item[i].status = st}

RECURSIVE ErrorLines(_)
ErrorLines(n) ==
    IF n = 0 THEN <<>>
    ELSE ErrorLines(n - 1) \o
         (IF item[n].status = "error"
          THEN <<[file |-> item[n].file, error |-> item[n].error]>> ELSE <<>>)

\* list(executor.map(...)) has every result; the summary is printed; main returns
Gather ==
    /\ phase = "running"
    /\ \A i \in DOMAIN item : item[i].pc = "done"
    /\ summary' = [processed |-> Cardinality(WithStatus("processed")),
                   skipped |-> Cardinality(WithStatus("skipped")),
                   errors |-> ErrorLines(Len(item))]
    /\ Exit(0)
    /\ UNCHANGED <<disk, dirExists, clock, history, args, config, images, item,
                   sizeVars>>

\* list(executor.map(...)) reaches, in task order, a task that raised: the
\* exception leaves main() and the pool is shut down
Propagate ==
    /\ phase = "running"
    /\ \E k \in DOMAIN item :
          /\ item[k].pc = "raised"
          /\ \A j \in 1..(k - 1) : item[j].pc = "done"
    /\ phase' = "aborting"
    /\ UNCHANGED <<disk, dirExists, clock, history, args, config, images, item,
                   summary, exitCode, sizeVars>>

\* shutdown cancels a task no worker has been given
Cancel(i) ==
    /\ phase = "aborting"
    /\ item[i].pc = "queued"
    /\ SetItem(i, [item[i] EXCEPT !.pc = "cancelled"])
    /\ UNCHANGED <<disk, dirExists, clock, history, phase, args, config,
                   images, summary, exitCode, sizeVars>>

\* the pool has shut down; the traceback is printed and the process ends
AbortExit ==
    /\ phase = "aborting"
    /\ \A i \in DOMAIN item : Finished(item[i])
    /\ Exit(1)
    /\ UNCHANGED <<disk, dirExists, clock, history, args, config, images, item,
                   summary, sizeVars>>

\* The process and its workers are killed (signal, power loss) mid-batch
Kill ==
    /\ phase \in {"running", "aborting"}
    /\ phase' = IF \E i \in DOMAIN item : item[i].pc = "writing"
                THEN "killed_writing" ELSE "killed"
    /\ item' = NoItems
    /\ UNCHANGED <<disk, dirExists, clock, history, args, config, images,
                   summary, exitCode, sizeVars>>

Ended == phase \in {"exited", "killed", "killed_writing"}

\* The program is invoked again on the same directory
NewRun ==
    /\ Ended
    /\ Len(history) < MaxRuns - 1
    /\ history' = Append(history, [end |-> phase, code |-> exitCode])
    /\ phase' = "parse"
    /\ args' = NoArgs
    /\ config' = NoConfig
    /\ images' = <<>>
    /\ item' = NoItems
    /\ summary' = NoSummary
    /\ exitCode' = NoExit
    /\ UNCHANGED <<disk, dirExists, clock, sizeVars>>

\* Another process removes the output of a discovered file while the batch runs
ExternalRemove ==
    /\ phase \in {"running", "aborting"}
    /\ \E i \in DOMAIN item :
          /\ Exists(disk, min_path(item[i].file))
          /\ disk' = RemoveFile(disk, min_path(item[i].file))
    /\ UNCHANGED <<dirExists, clock, history, phase, args, config, images,
                   item, summary, exitCode, sizeVars>>

Next ==
    \/ ParseArgs
    \/ Validate
    \/ Discover
    \/ Dispatch
    \/ \E i \in DOMAIN item : Start(i)
    \/ \E i \in DOMAIN item : StatCheck(i)
    \/ \E i \in DOMAIN item : Transform(i)
    \/ \E i \in DOMAIN item : SaveBegin(i)
    \/ \E i \in DOMAIN item : SaveEnd(i)
    \/ \E i \in DOMAIN item : Cancel(i)
    \/ Gather
    \/ Propagate
    \/ AbortExit
    \/ Kill
    \/ NewRun

Spec == Init /\ [][Next]_vars

NextEnv == Next \/ ExternalRemove

SpecEnv == Init /\ [][NextEnv]_vars

-----------------------------------------------------------------------------
(* The thumbnail size of process_photo(), lines 41-45 *)

RECURSIVE Gcd(_, _)
Gcd(a, b) == IF b = 0 THEN a ELSE Gcd(b, a % b)

RECURSIVE IsPowerOfTwo(_)
IsPowerOfTwo(n) == n = 1 \/ (n > 1 /\ n % 2 = 0 /\ IsPowerOfTwo(n \div 2))

\* ratio = min_width / width is a double: it is exact only when the reduced
\* denominator is a power of two
RatioExact(width, min_width) == IsPowerOfTwo(width \div Gcd(width, min_width))

\* int(a * ratio): the truncated exact product, or one less when the exact
\* product is an integer and the rounded ratio may fall short of it
Truncated(a, width, min_width) ==
    LET q == (a * min_width) \div width
    IN  IF (a * min_width) % width = 0 /\ ~RatioExact(width, min_width)
        THEN {q - 1, q} ELSE {q}

new_size_rounded(width, height, min_width) ==
    {<<min_width, (2 * height * min_width + width) \div (2 * width)>>}

\* new_size = (int(width * ratio), int(height * ratio))
new_size(width, height, min_width) ==
    {<<x, y>> : x \in Truncated(width, width, min_width),
                y \in Truncated(height, width, min_width)}

Abs(n) == IF n < 0 THEN 0 - n ELSE n

Max(a, b) == IF a >= b THEN a ELSE b

\* Image.thumbnail(): an image inside the box is left alone; otherwise one side
\* of the box is kept and the other is the floor or the ceiling of the exactly
\* scaled side, whichever is closer to the source's aspect ratio, at least 1.
\* A box of height 0 raises ZeroDivisionError.
thumbnail(width, height, box) ==
    LET x == box[1]
        y == box[2]
    IN  IF x >= width /\ y >= height THEN <<width, height>>
        ELSE IF y = 0 THEN <<"ZeroDivisionError">>
        ELSE IF x * height >= width * y
        THEN LET fl == (y * width) \div height
                 ce == IF (y * width) % height = 0 THEN fl ELSE fl + 1
                 pick == IF Abs(width * y - fl * height) <= Abs(width * y - ce * height)
                         THEN fl ELSE ce
             IN  <<Max(pick, 1), y>>
        ELSE LET fl == (x * height) \div width
                 ce == IF (x * height) % width = 0 THEN fl ELSE fl + 1
                 pick == IF fl = 0 THEN fl
                         ELSE IF Abs(width * fl - x * height) * ce
                                   <= Abs(width * ce - x * height) * fl
                         THEN fl ELSE ce
             IN  <<x, Max(pick, 1)>>

SizeInit ==
    /\ szin \in (1..MaxDim) \X (1..MaxDim) \X (MinWidth..MaxTarget)
    /\ szout = NoSize
    /\ dirExists = FALSE
    /\ disk = <<>>
    /\ clock = SrcMtime
    /\ history = <<>>
    /\ phase = "transform"
    /\ args = NoArgs
    /\ config = NoConfig
    /\ images = <<>>
    /\ item = NoItems
    /\ summary = NoSummary
    /\ exitCode = NoExit

\* lines 41-42
ComputeSize ==
    /\ szin # NoSize
    /\ szout = NoSize
    /\ \E ns \in new_size(szin[1], szin[2], szin[3]) :
          szout' = [new_size |-> ns, thumb |-> NoSize]
    /\ UNCHANGED <<szin, batchVars>>

\* lines 44-45
Thumbnail ==
    /\ szout # NoSize
    /\ szout.thumb = NoSize
    /\ szout' = [szout EXCEPT !.thumb = thumbnail(szin[1], szin[2], szout.new_size)]
    /\ UNCHANGED <<szin, batchVars>>

SizeNext == ComputeSize \/ Thumbnail

SizeSpec == SizeInit /\ [][SizeNext]_vars

-----------------------------------------------------------------------------
(* Properties *)

Dispatched == item # NoItems

OutputNewer(d, f) ==
    /\ f \in DOMAIN d /\ d[f].kind # "dangling"
    /\ ThumbName(f) \in DOMAIN d
    /\ d[ThumbName(f)].mtime > d[f].mtime

Stages == {"decode", "watermark", "resize", "encode"}

SummaryPrinted == summary # NoSummary

\* Items whose pipeline was entered with a source that decodes and encodes
Sound(i) == item[i].file \in DOMAIN disk /\ disk[item[i].file].kind = "jpeg"

\* C1: a failure in the decode, watermark, resize or encode stage of a file
\* ends that file's work item with an error outcome that carries the file's
\* name and a message; it never leaves process_photo as an exception, so the
\* batch is only ever aborted by a failed stat() of the skip check; the
\* outcome of a file that decodes and encodes is processed or skipped whatever
\* happens to the others; and the summary lists exactly the failed files.
C1_FailureBecomesErrorOutcome ==
    /\ \A i \in DOMAIN item :
          /\ item[i].fault \in Stages =>
                \/ item[i].fault = "encode" /\ item[i].pc \in {"save", "writing"}
                \/ /\ item[i].pc = "done"
                   /\ item[i].status = "error"
                   /\ item[i].file = images[i]
                   /\ item[i].error # ""
          /\ item[i].pc = "raised" => item[i].fault = "none"
          /\ item[i].status = "error" => item[i].fault \in Stages
          /\ Sound(i) /\ item[i].pc = "done" =>
                item[i].status \in {"processed", "skipped"}
    /\ phase = "aborting" => \E i \in DOMAIN item : item[i].pc = "raised"
    /\ SummaryPrinted /\ Dispatched =>
          /\ Len(summary.errors) =
                Cardinality({i \in DOMAIN item : item[i].fault \in Stages})
          /\ \A k \in DOMAIN summary.errors :
                \E i \in DOMAIN item :
                    /\ item[i].fault \in Stages
                    /\ summary.errors[k].file = images[i]
                    /\ summary.errors[k].error # ""
          /\ summary.processed =
                Cardinality({i \in DOMAIN item :
                                Sound(i) /\ item[i].status # "skipped"})

\* one file processed, the corrupt one reported, nothing skipped
C1_Witness ==
    /\ phase = "exited"
    /\ SummaryPrinted
    /\ summary.processed = 1
    /\ summary.skipped = 0
    /\ Len(summary.errors) = 1
    /\ \E i \in DOMAIN item :
          /\ summary.errors[1].file = item[i].file
          /\ disk[item[i].file].kind = "bad"

\* C2: every run that dispatched work and ended by itself printed a summary
\* with exactly one outcome for each discovered file.
C2_EveryRunEndsWithFullSummary ==
    phase = "exited" /\ images # <<>> /\ args.workers > 0 =>
        /\ SummaryPrinted
        /\ summary.processed + summary.skipped + Len(summary.errors) = Len(images)

\* The step in which a work item leaves the skip check
C3_SkipStep ==
    \A i \in DOMAIN item :
        (/\ i \in DOMAIN item'
         /\ item[i].pc \in {"queued", "stat"}
         /\ item'[i].pc \notin {"queued", "stat", "cancelled"})
        => LET f == item[i].file
           IN  /\ item'[i].status = "skipped"
                    <=> (~config.force /\ OutputNewer(disk, f))
               /\ (\/ config.force
                   \/ ThumbName(f) \notin DOMAIN disk
                   \/ (/\ disk[f].kind # "dangling"
                       /\ disk[ThumbName(f)].mtime = disk[f].mtime))
                    => item'[i].pc = "transform"

\* C3: a work item leaves the skip check as skipped exactly when force is
\* off, the output exists and the output is strictly newer than the source;
\* with force on, the output missing or the times equal it goes on to the
\* transform.
C3_SkipDecision == [][C3_SkipStep]_vars

\* a run without force that skipped one file and processed another
C3_Witness ==
    /\ Dispatched
    /\ ~config.force
    /\ \E i, j \in DOMAIN item :
          /\ item[i].status = "skipped"
          /\ OutputNewer(disk, item[i].file)
          /\ item[j].status = "processed"

\* A run without force, all of whose files have strictly newer outputs, and in
\* which no file has got past the skip check other than as skipped
UpToDateRun ==
    /\ phase \in {"dispatch", "running"}
    /\ ~args.force
    /\ images # <<>>
    /\ \A k \in DOMAIN images : OutputNewer(disk, images[k])
    /\ \A i \in DOMAIN item :
          item[i].pc \in {"queued", "stat"} \/ item[i].status = "skipped"

AllSkippedSummary ==
    /\ phase = "exited"
    /\ exitCode = 0
    /\ SummaryPrinted
    /\ summary.processed = 0
    /\ summary.errors = <<>>
    /\ summary.skipped = Len(images)

\* C4: a run without force that starts on a directory in which every
\* discovered file has a strictly newer output (as the run before left it)
\* stays, step by step, a run in which nothing is processed, until its summary
\* reports every file skipped; only a kill or an empty pool ends it otherwise.
C4_Idempotent ==
    [][UpToDateRun =>
          \/ UpToDateRun'
          \/ AllSkippedSummary'
          \/ phase' \in {"killed", "killed_writing"}
          \/ phase' = "exited" /\ args.workers <= 0]_vars

\* the second of two runs: the first one wrote every output, the second one
\* skipped every file
C4_Witness ==
    /\ AllSkippedSummary
    /\ ~args.force
    /\ Len(history) = 1
    /\ history[1].end = "exited"
    /\ history[1].code = 0
    /\ Len(images) = Cardinality(Candidates)
    /\ \A k \in DOMAIN images : disk[ThumbName(images[k])].kind = "thumb"

\* C5: in a run with force no file is skipped and the skip check's stat() is
\* never reached, so nothing raises; a processed file's output is a freshly
\* written thumbnail; the summary has every file as processed or error.
C5_ForceNeverSkips ==
    (Dispatched /\ config.force) =>
        /\ \A i \in DOMAIN item :
              /\ item[i].status # "skipped"
              /\ item[i].pc \notin {"stat", "raised", "cancelled"}
              /\ item[i].status = "processed" =>
                    /\ ThumbName(item[i].file) \in DOMAIN disk
                    /\ disk[ThumbName(item[i].file)].kind = "thumb"
        /\ phase # "aborting"
        /\ phase = "exited" =>
              /\ SummaryPrinted
              /\ summary.skipped = 0
              /\ summary.processed + Len(summary.errors) = Len(images)

\* under force, a file whose output existed was processed again over it
C5_Witness ==
    /\ Dispatched
    /\ config.force
    /\ phase = "exited"
    /\ Len(history) = 1
    /\ \E i \in DOMAIN item :
          /\ item[i].status = "processed"
          /\ ~item[i].created
          /\ disk[ThumbName(item[i].file)].kind = "thumb"

\* The command line is one that main() must reject, or names no directory
FatalInput ==
    /\ args # NoArgs
    /\ \/ args.quality < 1
       \/ args.quality > 100
       \/ args.min_width < 100
       \/ ~dirExists

\* The directory holds no file with a JPEG extension and a stem without ".min"
NothingToDo ==
    \A n \in DOMAIN disk :
        \/ n[Len(n)] \notin {"jpg", "jpeg", "JPG", "JPEG"}
        \/ (Len(n) >= 3 /\ n[Len(n) - 1] = "min")

C6_State ==
    /\ FatalInput =>
          /\ item = NoItems
          /\ ~SummaryPrinted
          /\ phase \in {"validate", "discover", "exited"}
          /\ phase = "exited" => exitCode = 1
    /\ (args # NoArgs /\ ~FatalInput /\ NothingToDo) =>
          /\ item = NoItems
          /\ ~SummaryPrinted
          /\ phase \in {"validate", "discover", "exited"}
          /\ phase = "exited" => exitCode = 0
    /\ SummaryPrinted => phase = "exited" /\ exitCode = 0

C6_Step == (FatalInput \/ (args # NoArgs /\ NothingToDo)) => disk' = disk

\* C6: with a width below 100, a quality outside 1..100 or a missing directory
\* the run ends with exit code 1, and with nothing to discover it ends with
\* exit code 0, in both cases without a work item, a summary or a change to
\* the directory; a run that printed its summary exits with code 0.
C6_FatalInputsStopBeforeWork == [](C6_State) /\ [][C6_Step]_vars

\* width 99 rejected although the directory holds work
C6_Witness ==
    /\ phase = "exited"
    /\ exitCode = 1
    /\ args.min_width < 100
    /\ args.quality = DefaultQuality
    /\ dirExists
    /\ ~NothingToDo

Discoverable(d) == eligible(d)

Written(d) == {n \in DOMAIN d : d[n].kind \in {"old", "partial", "thumb"}}

C7_State ==
    /\ \A k \in DOMAIN images :
          ~(Len(images[k]) >= 3 /\ images[k][Len(images[k]) - 1] = "min")
    /\ Written(disk) \cap Range(images) = {}
    /\ Written(disk) \cap Discoverable(disk) = {}

C7_Step == Discoverable(disk') \subseteq Discoverable(disk)

\* C7: no discovered file has a stem that ends in ".min"; no file written as
\* an output, in this run or an earlier one, is among the discovered files or
\* would be discovered now; and no step of any run adds a file to what
\* discovery returns.
C7_OutputsAreNeverSources == [](C7_State) /\ [][C7_Step]_vars

\* a later run at work on a directory that holds outputs of the run before
C7_Witness ==
    /\ Len(history) = 1
    /\ phase = "running"
    /\ \E n \in DOMAIN disk : disk[n].kind = "thumb"
    /\ \E n \in DOMAIN disk : disk[n].kind = "old"

Changed == {n \in DOMAIN disk \cup DOMAIN disk' :
                \/ n \notin DOMAIN disk
                \/ n \notin DOMAIN disk'
                \/ disk[n] # disk'[n]}

Saving(n) == {i \in DOMAIN item :
                 item[i].pc \in {"save", "writing"} /\ min_path(item[i].file) = n}

C8_State ==
    /\ \A i, j \in DOMAIN item :
          i # j => min_path(item[i].file) # min_path(item[j].file)
    /\ \A i \in DOMAIN item : min_path(item[i].file) \notin Range(images)

C8_Step ==
    \A n \in Changed :
        /\ n \notin Range(images)
        /\ Cardinality(Saving(n)) = 1
        /\ n \in DOMAIN disk => disk[n].kind \notin SourceKinds

\* C8: the outputs of two work items differ and none is a discovered source;
\* each change of the directory is made to the output of exactly one work
\* item that is saving, and never to a source file.
C8_WritersNeverCollide == [](C8_State) /\ [][C8_Step]_vars

\* two workers in the middle of their writes at the same time
C8_Witness ==
    \E i, j \in DOMAIN item :
        /\ i # j
        /\ item[i].pc = "writing"
        /\ item[j].pc = "writing"
        /\ disk[min_path(item[i].file)].kind = "partial"
        /\ disk[min_path(item[j].file)].kind = "partial"

Sized == szout # NoSize

C10_State ==
    \A i \in DOMAIN item :
        item[i].pc = "writing" =>
            /\ ThumbName(item[i].file) \in DOMAIN disk
            /\ disk[ThumbName(item[i].file)].kind = "partial"

C10_Step ==
    \A i \in DOMAIN item :
        (/\ i \in DOMAIN item'
         /\ item[i].pc = "stat"
         /\ item'[i].pc # "stat"
         /\ ThumbName(item[i].file) \in DOMAIN disk
         /\ disk[ThumbName(item[i].file)].kind = "partial"
         /\ OutputNewer(disk, item[i].file))
        => item'[i].status = "skipped" /\ disk' = disk

\* C10: while a worker writes, the truncated file lies at the output path
\* itself; and a skip check that finds such a file newer than its source
\* reports the source as skipped and leaves the file as it is.
C10_TruncatedOutputIsSkipped == [](C10_State) /\ [][C10_Step]_vars

\* the run before was killed during a write; this run skipped the file whose
\* output is the truncated one
C10_Witness ==
    /\ Len(history) = 1
    /\ history[1].end = "killed_writing"
    /\ Dispatched
    /\ ~config.force
    /\ \E i \in DOMAIN item :
          /\ item[i].status = "skipped"
          /\ disk[item[i].file].kind = "jpeg"
          /\ disk[ThumbName(item[i].file)].kind = "partial"

====
